---- MODULE Spec2Model ----
(***************************************************************************)
(* State-machine model of rqpy.core._iv_didv_tools: the IVanalysis class   *)
(* (construction from a sweep DataFrame, then the calibration, fitting and *)
(* noise-modelling stages invoked on the object in any order).             *)
(*                                                                         *)
(* The fitting routines of qetpy / lmfit are collaborators outside the     *)
(* repository. A fit is a deterministic function of the data it is given, *)
(* so each row carries, with its data, how the fits of that data behave    *)
(* (field "fit"): they converge to a value taken from the data, return a   *)
(* non-converged NaN result, or raise an exception.                        *)
(***************************************************************************)
EXTENDS Integers, Sequences, FiniteSets, TLC

VARIABLES
    args,        \* the constructor's arguments (df, nnorm, nsc, ntran, ...)
    st,          \* "new" | "constructed" | "failed"
    df,          \* self.df : the rows kept by the object, in order
    norminds,    \* self.norminds : python range [lo, hi)
    scinds,      \* self.scinds
    traninds,    \* self.traninds
    ibias_err,   \* self.ibias_err (one value for all points)
    didvobj,     \* column df.didvobj  : one fit object per row of df
    didvobj2,    \* column df.didvobj2 : one fit object per row of df
    rload, rload_list, rload_err, rp,
    rn_didv, rtot_list,
    rn_iv,       \* self.rn_iv, written by analyze_sweep
    ivcols,      \* "unset" | "partial" | "set": the ptes/r0/rp columns of df
    squiddc, squidpole, squidn,
    tload,       \* self.tload (the attribute does not exist before fit_sc_noise)
    normal_psd,  \* TRUE once self.normal_psd exists
    noise_model, \* self.noise_model
    last,        \* the last operation invoked, the exception it raised (if any)
                 \* and the channel names that exception's message carries
    completed,   \* history: the operations that have returned normally
    noisecols,   \* the energy_res / tau_eff columns of df (model_noise_simple)
    call,        \* the arguments of the last invocation that takes any
    ret,         \* the value the last invocation returned
    mc           \* Monte-Carlo samples handed to _err_bounds, and its results

vars == <<args, st, df, norminds, scinds, traninds, ibias_err, didvobj, didvobj2,
          rload, rload_list, rload_err, rp, rn_didv, rtot_list, rn_iv, ivcols,
          squiddc, squidpole, squidn, tload, normal_psd, noise_model, last,
          completed, noisecols, call, ret, mc>>

-----------------------------------------------------------------------------
(* Bounds of the model *)

MaxBias == 3     \* distinct bias settings in an input sweep
MaxCount == 2    \* largest nnorm / nsc argument
MaxSamples == 3  \* Monte-Carlo samples handed to _err_bounds
MaxSample == 2   \* largest sample value

-----------------------------------------------------------------------------
(* Numbers: exact rationals num/den; den = 0 is NaN, den = -1 is None *)

RECURSIVE GCD(_, _)
GCD(a, b) == IF b = 0 THEN a ELSE GCD(b, a % b)

Abs(x) == IF x < 0 THEN -x ELSE x

NoneV == [num |-> 0, den |-> -1]
NaN == [num |-> 0, den |-> 0]
IsNone(x) == x.den = -1
IsNaN(x) == x.den = 0

Rat(n, d) ==
    IF d = 0 THEN NaN
    ELSE LET g == GCD(Abs(n), Abs(d))
             s == IF d < 0 THEN -1 ELSE 1
         IN [num |-> (s * n) \div g, den |-> (s * d) \div g]

Num(n) == Rat(n, 1)

RatSub(a, b) ==
    IF IsNaN(a) \/ IsNaN(b) THEN NaN
    ELSE Rat(a.num * b.den - b.num * a.den, a.den * b.den)

RatAdd(a, b) ==
    IF IsNaN(a) \/ IsNaN(b) THEN NaN
    ELSE Rat(a.num * b.den + b.num * a.den, a.den * b.den)

RatMul(a, b) ==
    IF IsNaN(a) \/ IsNaN(b) THEN NaN ELSE Rat(a.num * b.num, a.den * b.den)

RatDiv(a, b) ==
    IF IsNaN(a) \/ IsNaN(b) THEN NaN ELSE Rat(a.num * b.den, a.den * b.num)

\* a < b, for numbers that are not NaN
RatLess(a, b) == a.num * b.den < b.num * a.den

RECURSIVE SumNum(_)
SumNum(xs) ==
    IF xs = <<>> THEN Num(0)
    ELSE LET h == Head(xs)
             t == SumNum(Tail(xs))
         IN RatAdd(h, t)

\* np.mean of a list: 0/0 = NaN for the empty list, NaN if any element is NaN
Mean(xs) ==
    LET t == SumNum(xs)
    IN IF IsNaN(t) THEN NaN ELSE Rat(t.num, t.den * Len(xs))

\* np.std(xs)**2
StdSq(xs) ==
    RatSub(Mean([i \in 1..Len(xs) |-> RatMul(xs[i], xs[i])]),
           RatMul(Mean(xs), Mean(xs)))

-----------------------------------------------------------------------------
(* Python ranges and indexing *)

Range(lo, hi) == [lo |-> lo, hi |-> hi]
RangeLen(r) == IF r.hi > r.lo THEN r.hi - r.lo ELSE 0
RangeSeq(r) == [i \in 1..RangeLen(r) |-> r.lo + i - 1]
RangeSet(r) == {r.lo + i - 1 : i \in 1..RangeLen(r)}

\* position (1-based) that python index i selects in a sequence of length n,
\* 0 when the index is out of bounds (IndexError)
PyIdx(i, n) ==
    IF 0 <= i /\ i < n THEN i + 1
    ELSE IF i < 0 /\ -n <= i THEN n + i + 1
    ELSE 0

\* positions (1-based, ascending) of the rows of d whose datatype is dt:
\* np.flatnonzero(df.datatype == dt), and the row order of df[df.datatype == dt]
RECURSIVE PositionsFrom(_, _, _)
PositionsFrom(d, k, dt) ==
    IF k > Len(d) THEN <<>>
    ELSE (IF d[k].datatype = dt THEN <<k>> ELSE <<>>) \o PositionsFrom(d, k + 1, dt)

Positions(d, dt) == PositionsFrom(d, 1, dt)

-----------------------------------------------------------------------------
(* Rows of the sweep DataFrame *)

Chan1 == <<"P", "B">>    \* a channel name of two characters
Chan2 == <<"Z">>         \* a channel name of one character

Row(b, s, dt, ch, cp, nd, oe) ==
    [qetbias |-> b, seriesnum |-> s, datatype |-> dt, channels |-> ch,
     cut_pass |-> cp, ndistinct |-> nd, offset_err |-> oe, didvmean |-> b,
     fit |-> "ok", eres |-> b, tau |-> 10 - b]

\* how the fits of a row's data behave:
\*   "ok"     every fit converges
\*   "bad"    every fit returns without converging (NaN parameters)
\*   "raise"  the first fit of the row raises
\*   "raise2" the physical-units (stage-2) fit of the row raises
\*   "nonpd"  the stage-2 fit returns a covariance that is not positive definite
Faults == {"bad", "raise", "raise2", "nonpd"}

\* the sweep d with the data of bias setting b behaving as f
WithFault(d, b, f) ==
    [i \in 1..Len(d) |-> IF d[i].qetbias = b THEN [d[i] EXCEPT !.fit = f] ELSE d[i]]

\* the records taken at one bias setting b, by the shape of that setting
RowsOf(b, k) ==
    CASE k = "good"  -> <<Row(b, 10 * b, "noise", Chan1, TRUE, 200, 1),
                          Row(b, 10 * b + 1, "didv", Chan1, TRUE, 200, 1)>>
      [] k = "sc0"   -> <<Row(b, 10 * b, "noise", Chan1, TRUE, 200, 0),
                          Row(b, 10 * b + 1, "didv", Chan1, TRUE, 200, 0)>>
      [] k = "ncut"  -> <<Row(b, 10 * b, "noise", Chan1, FALSE, 200, 1),
                          Row(b, 10 * b + 1, "didv", Chan1, TRUE, 200, 1)>>
      [] k = "dflat" -> <<Row(b, 10 * b, "noise", Chan1, TRUE, 200, 1),
                          Row(b, 10 * b + 1, "didv", Chan1, TRUE, 7, 1)>>
      [] k = "nn"    -> <<Row(b, 10 * b, "noise", Chan1, TRUE, 200, 1),
                          Row(b, 10 * b + 1, "noise", Chan1, TRUE, 200, 1)>>
      [] k = "dd"    -> <<Row(b, 10 * b, "didv", Chan1, TRUE, 200, 1),
                          Row(b, 10 * b + 1, "didv", Chan1, TRUE, 200, 1)>>
      [] k = "one"   -> <<Row(b, 10 * b + 1, "didv", Chan1, TRUE, 200, 1)>>
      [] k = "three" -> <<Row(b, 10 * b, "noise", Chan1, TRUE, 200, 1),
                          Row(b, 10 * b + 1, "didv", Chan1, TRUE, 200, 1),
                          Row(b, 10 * b + 2, "noise", Chan1, TRUE, 200, 1)>>

Kinds == {"good", "sc0", "ncut", "dflat", "nn", "dd", "one", "three"}

RECURSIVE Dataset(_, _)
Dataset(kinds, b) ==
    IF b > Len(kinds) THEN <<>> ELSE RowsOf(b, kinds[b]) \o Dataset(kinds, b + 1)

\* records of a second channel sharing the table; "same": the second channel
\* was recorded in the very series of the first, as the channels of one
\* detector are
OtherChannel(x) ==
    CASE x = "none" -> <<>>
      [] x = "lone" -> <<Row(1, 1, "didv", Chan2, TRUE, 200, 1)>>
      [] x = "pair" -> <<Row(1, 1, "noise", Chan2, TRUE, 200, 1),
                         Row(1, 2, "didv", Chan2, TRUE, 200, 1)>>
      [] x = "same" -> <<Row(1, 10, "noise", Chan2, TRUE, 200, 1),
                         Row(1, 11, "didv", Chan2, TRUE, 200, 1)>>

Reverse(s) == [i \in 1..Len(s) |-> s[Len(s) + 1 - i]]

KindSeqs == UNION {[1..n -> Kinds] : n \in 1..MaxBias}

-----------------------------------------------------------------------------
(* Module-level helpers *)

RowLE(a, b) ==
    \/ a.qetbias < b.qetbias
    \/ a.qetbias = b.qetbias /\ a.seriesnum <= b.seriesnum

RECURSIVE Insert(_, _)
Insert(r, s) ==
    IF s = <<>> THEN <<r>>
    ELSE IF RowLE(r, Head(s)) THEN <<r>> \o s
    ELSE <<Head(s)>> \o Insert(r, Tail(s))

\* df.sort_values(['qetbias', 'seriesnum'], ascending=[True, True])
RECURSIVE sort_df(_)
sort_df(d) == IF d = <<>> THEN <<>> ELSE Insert(Head(d), sort_df(Tail(d)))

\* the channel selector: None, a list of names, or one name given as a string
NoChannels == [kind |-> "none", items |-> <<>>]
ChannelList(names) == [kind |-> "list", items |-> names]
ChannelStr(name) == [kind |-> "str", items |-> name]

\* what "for ii, chan in enumerate(channels)" visits: the names of a list, the
\* characters of a string, every channel of the table when "not channels"
CheckedChannels(d, channels) ==
    IF channels.kind = "none" \/ channels.items = <<>>
    THEN {d[i].channels : i \in 1..Len(d)}
    ELSE IF channels.kind = "list"
    THEN {channels.items[i] : i \in 1..Len(channels.items)}
    ELSE {<<channels.items[i]>> : i \in 1..Len(channels.items)}

\* Counter(df.qetbias[df.channels == chan].values)
BiasCounter(d, chan) ==
    LET rows == {i \in 1..Len(d) : d[i].channels = chan}
    IN [b \in {d[i].qetbias : i \in rows} |->
            Cardinality({i \in rows : d[i].qetbias = b})]

\* check_df accepting a bias value that occurs once
check_df_atmost(d, channels) ==
    [chan \in CheckedChannels(d, channels) |->
        LET check_data == BiasCounter(d, chan)
        IN \A b \in DOMAIN check_data : check_data[b] <= 2]

check_df(d, channels) ==
    [chan \in CheckedChannels(d, channels) |->
        LET check_data == BiasCounter(d, chan)
        IN \A b \in DOMAIN check_data : check_data[b] = 2]

StationaryMin == 100

\* BadSeries without the test of the offset uncertainty
BadSeriesCutOrFlat(r) == (~r.cut_pass) \/ r.ndistinct < StationaryMin

BadSeries(r) == (~r.cut_pass) \/ r.ndistinct < StationaryMin \/ r.offset_err = 0
GoodSeries(r) == ~BadSeries(r)

remove_bad_series(d) == SelectSeq(d, GoodSeries)

-----------------------------------------------------------------------------
(* Fit objects stored in the didvobj / didvobj2 columns *)

\* DIDV(1,1,1,1,1): the placeholder assigned to every row at construction
TempObj == [kind |-> "temp", src |-> 0, ok |-> FALSE, cov |-> "none"]

FitObj(kind, src, ok, cov) == [kind |-> kind, src |-> src, ok |-> ok, cov |-> cov]

\* the per-point value a fit returns: from the row's data when the fit
\* converged, NaN otherwise
FitValue(row, ok) == IF ok THEN Num(row.didvmean) ELSE NaN

NoModel == [set |-> FALSE, rows |-> <<>>]

\* df has no energy_res / tau_eff column
NoCols == [set |-> "unset", energy_res |-> <<>>, tau_eff |-> <<>>]

\* _err_bounds has not been handed anything
NoSamples ==
    [arr |-> <<>>, shuffled |-> <<>>, perc |-> <<>>, out |-> <<>>,
     out_shuffled |-> <<>>]

-----------------------------------------------------------------------------
(* IVanalysis.__init__ *)

NoErr == "none"
ShapeErr == "ValueError: The DF is not the correct shape"
BroadcastErr == "ValueError: could not broadcast input array"

\* the channel names an exception's message carries: every message raised by
\* this module is a fixed text
ErrNames(err) == {}

\* no argument beyond the plotting switches; no value returned (None)
NoArgs == [kind |-> "none"]
NoRet == [kind |-> "none"]

\* self.scinds = range(len(self.df)//2 - nsc, len(self.df)//2)
ScRange(half, nsc) == Range(half - nsc, half)

\* TranRange starting on the last normal point
TranRangeFromLast(ni, si) == Range(ni.hi - 1, si.lo)

\* self.traninds, when ntran is None: range(norminds[-1] + 1, scinds[0])
TranRange(ni, si) == Range((ni.hi - 1) + 1, si.lo)

\* "a[0, j, :] = values" with a[0, j, :] of length k and values of length m
CanAssign(m, k) == m = k \/ m = 1

Ctor(a) ==
    LET sorted == sort_df(a.df)
        check == check_df(sorted, a.channels)
        d == IF a.lgcremove_badseries THEN remove_bad_series(sorted) ELSE sorted
        nnoise == Len(Positions(d, "noise"))
        ndidv == Len(Positions(d, "didv"))
        half == Len(d) \div 2
        ni == Range(0, a.nnorm)
        si == ScRange(half, a.nsc)
        none == [err |-> NoErr, df |-> <<>>, norminds |-> Range(0, 0),
                 scinds |-> Range(0, 0), traninds |-> Range(0, 0),
                 ibias_err |-> NoneV]
    IN  IF \E c \in DOMAIN check : ~check[c]
        THEN [none EXCEPT !.err = ShapeErr]
        ELSE IF ~a.ntran.given /\ (RangeLen(ni) = 0 \/ RangeLen(si) = 0)
        THEN [none EXCEPT !.err = "IndexError"]
        ELSE IF ~IsNone(a.ib_err)
        THEN [none EXCEPT !.err = "UnboundLocalError"]
        ELSE IF ~CanAssign(ndidv, nnoise)
        THEN [none EXCEPT !.err = BroadcastErr]
        ELSE [err |-> NoErr, df |-> d, norminds |-> ni, scinds |-> si,
              traninds |-> IF a.ntran.given
                           THEN Range(a.ntran.lo, a.ntran.hi)
                           ELSE TranRange(ni, si),
              ibias_err |-> Num(0)]

Construct ==
    /\ st = "new"
    /\ LET r == Ctor(args)
       IN /\ st' = IF r.err = NoErr THEN "constructed" ELSE "failed"
          /\ df' = r.df
          /\ norminds' = r.norminds
          /\ scinds' = r.scinds
          /\ traninds' = r.traninds
          /\ ibias_err' = r.ibias_err
          /\ didvobj' = [i \in 1..Len(r.df) |-> TempObj]
          /\ didvobj2' = [i \in 1..Len(r.df) |-> TempObj]
          /\ last' = [op |-> "__init__", err |-> r.err, names |-> ErrNames(r.err)]
          /\ completed' = IF r.err = NoErr THEN {"__init__"} ELSE {}
    /\ call' = NoArgs /\ ret' = NoRet
    /\ UNCHANGED <<args, rload, rload_list, rload_err, rp, rn_didv, rtot_list,
                   rn_iv, ivcols, squiddc, squidpole, squidn, tload, normal_psd,
                   noise_model, noisecols, mc>>

-----------------------------------------------------------------------------
(* Resistance calibration: _fit_rload_didv, _fit_rn_didv *)

rshunt == Rat(5, 1000)    \* the default shunt resistance, 5e-3 Ohm

FitErr == "FitError"      \* an exception raised inside a qetpy / lmfit fit
NeedRloadErr == "ValueError: rload has not been calculated yet"

\* "for ind in inds": fit the ind-th dIdV row, append the fitted resistance,
\* store the fit object on the ind-th dIdV row and on the ind-th noise row.
\* acc = [err, objs, list]; an exception ends the loop where it is raised.
RECURSIVE FitLoop(_, _, _, _, _)
FitLoop(d, kind, inds, k, acc) ==
    IF k > Len(inds) \/ acc.err # NoErr THEN acc
    ELSE LET ind == inds[k]
             dpos == Positions(d, "didv")
             npos == Positions(d, "noise")
             p == PyIdx(ind, Len(dpos))
             q == PyIdx(ind, Len(npos))
         IN IF p = 0 THEN [acc EXCEPT !.err = "IndexError"]
            ELSE IF d[dpos[p]].fit = "raise" THEN [acc EXCEPT !.err = FitErr]
            ELSE LET ok == d[dpos[p]].fit # "bad"
                     obj == FitObj(kind, dpos[p], ok, "none")
                     val == FitValue(d[dpos[p]], ok)
                     o1 == [acc.objs EXCEPT ![dpos[p]] = obj]
                     l1 == Append(acc.list, val)
                 IN IF q = 0
                    THEN [err |-> "IndexError", objs |-> o1, list |-> l1]
                    ELSE FitLoop(d, kind, inds, k + 1,
                                 [err |-> NoErr,
                                  objs |-> [o1 EXCEPT ![npos[q]] = obj],
                                  list |-> l1])

\* the state the two passes read and write
CalState == [objs |-> didvobj, rload |-> rload, rload_list |-> rload_list,
             rload_err |-> rload_err, rp |-> rp, rn_didv |-> rn_didv,
             rtot_list |-> rtot_list]

\* _fit_rload_didv on calibration state c
RloadPass(d, sc, c) ==
    LET r == FitLoop(d, "sc", RangeSeq(sc), 1,
                     [err |-> NoErr, objs |-> c.objs, list |-> <<>>])
    IN IF r.err # NoErr
       THEN [err |-> r.err, cal |-> [c EXCEPT !.objs = r.objs]]
       ELSE [err |-> NoErr,
             cal |-> [c EXCEPT !.objs = r.objs,
                               !.rload = Mean(r.list),
                               !.rload_list = r.list,
                               !.rload_err = StdSq(r.list),
                               !.rp = RatSub(Mean(r.list), rshunt)]]

\* RnPass without the check that rload has been fitted
RnPassNoGuard(d, nm, c) ==
    LET r == FitLoop(d, "normal", RangeSeq(nm), 1,
                     [err |-> NoErr, objs |-> c.objs, list |-> <<>>])
    IN IF r.err # NoErr
       THEN [err |-> r.err, cal |-> [c EXCEPT !.objs = r.objs]]
       ELSE [err |-> NoErr,
             cal |-> [c EXCEPT !.objs = r.objs,
                               !.rn_didv = RatSub(Mean(r.list), c.rload),
                               !.rtot_list = r.list]]

\* _fit_rn_didv on calibration state c
RnPass(d, nm, c) ==
    IF IsNone(c.rload)
    THEN [err |-> NeedRloadErr, cal |-> c]
    ELSE LET r == FitLoop(d, "normal", RangeSeq(nm), 1,
                          [err |-> NoErr, objs |-> c.objs, list |-> <<>>])
         IN IF r.err # NoErr
            THEN [err |-> r.err, cal |-> [c EXCEPT !.objs = r.objs]]
            ELSE [err |-> NoErr,
                  cal |-> [c EXCEPT !.objs = r.objs,
                                    !.rn_didv = RatSub(Mean(r.list), c.rload),
                                    !.rtot_list = r.list]]

SetCal(c) ==
    /\ didvobj' = c.objs
    /\ rload' = c.rload
    /\ rload_list' = c.rload_list
    /\ rload_err' = c.rload_err
    /\ rp' = c.rp
    /\ rn_didv' = c.rn_didv
    /\ rtot_list' = c.rtot_list

\* the invocation of op with arguments a ends: it raises err, or returns r
ReturnedFrom(op, err, a, r) ==
    /\ last' = [op |-> op, err |-> err, names |-> ErrNames(err)]
    /\ completed' = IF err = NoErr THEN completed \cup {op} ELSE completed
    /\ call' = a
    /\ ret' = IF err = NoErr THEN r ELSE NoRet

Returned(op, err) == ReturnedFrom(op, err, NoArgs, NoRet)

fit_rload_didv ==
    /\ st = "constructed"
    /\ LET r == RloadPass(df, scinds, CalState)
       IN SetCal(r.cal) /\ Returned("_fit_rload_didv", r.err)
    /\ UNCHANGED <<args, st, df, norminds, scinds, traninds, ibias_err, didvobj2,
                   rn_iv, ivcols, squiddc, squidpole, squidn, tload, normal_psd,
                   noise_model,
                   noisecols, mc>>

fit_rn_didv ==
    /\ st = "constructed"
    /\ LET r == RnPass(df, norminds, CalState)
       IN SetCal(r.cal) /\ Returned("_fit_rn_didv", r.err)
    /\ UNCHANGED <<args, st, df, norminds, scinds, traninds, ibias_err, didvobj2,
                   rn_iv, ivcols, squiddc, squidpole, squidn, tload, normal_psd,
                   noise_model,
                   noisecols, mc>>

\* fit_rload_rn with the two passes in the other order
FitRloadRnNormalFirst(d, nm, sc, c) ==
    LET r1 == RnPass(d, nm, c)
    IN IF r1.err # NoErr THEN r1 ELSE RloadPass(d, sc, r1.cal)

\* fit_rload_rn: _fit_rload_didv, then _fit_rn_didv; an exception of the
\* first leaves the second uncalled
FitRloadRn(d, nm, sc, c) ==
    LET r1 == RloadPass(d, sc, c)
    IN IF r1.err # NoErr THEN r1 ELSE RnPass(d, nm, r1.cal)

fit_rload_rn ==
    /\ st = "constructed"
    /\ LET r == FitRloadRn(df, norminds, scinds, CalState)
       IN SetCal(r.cal) /\ Returned("fit_rload_rn", r.err)
    /\ UNCHANGED <<args, st, df, norminds, scinds, traninds, ibias_err, didvobj2,
                   rn_iv, ivcols, squiddc, squidpole, squidn, tload, normal_psd,
                   noise_model,
                   noisecols, mc>>

-----------------------------------------------------------------------------
(* Operating-point solver: analyze_sweep *)

\* every index of range r selects one of n points
InBounds(r, n) == \A i \in RangeSet(r) : PyIdx(i, n) # 0

\* AnalyzeSweep refusing to run while rload is unset
AnalyzeSweepNeedsRload(d, nm, sc, cols, rn) ==
    LET npos == Positions(d, "noise")
        dpos == Positions(d, "didv")
    IN IF IsNone(rload)
       THEN [err |-> NeedRloadErr, ivcols |-> cols, rn_iv |-> rn]
       ELSE IF ~InBounds(nm, Len(npos)) \/ ~InBounds(sc, Len(npos))
       THEN [err |-> "IndexError", ivcols |-> cols, rn_iv |-> rn]
       ELSE IF Len(dpos) # Len(npos)
       THEN [err |-> "ValueError: Must have equal len keys and value",
             ivcols |-> "partial", rn_iv |-> rn]
       ELSE [err |-> NoErr, ivcols |-> "set",
             rn_iv |-> Mean([k \in 1..RangeLen(nm) |->
                               Num(d[npos[PyIdx(RangeSeq(nm)[k], Len(npos))]].didvmean)])]

\* IV2(...).calc_iv() and the column writes that follow it.  The solver takes
\* the offsets, the bias currents, rshunt and a fixed rp_guess: it does not
\* read self.rload.  Returns [err, ivcols, rn_iv].
AnalyzeSweep(d, nm, sc, cols, rn) ==
    LET npos == Positions(d, "noise")
        dpos == Positions(d, "didv")
    IN IF ~InBounds(nm, Len(npos)) \/ ~InBounds(sc, Len(npos))
       THEN [err |-> "IndexError", ivcols |-> cols, rn_iv |-> rn]
       ELSE IF Len(dpos) # Len(npos)
       THEN [err |-> "ValueError: Must have equal len keys and value",
             ivcols |-> "partial", rn_iv |-> rn]
       ELSE [err |-> NoErr, ivcols |-> "set",
             rn_iv |-> Mean([k \in 1..RangeLen(nm) |->
                               Num(d[npos[PyIdx(RangeSeq(nm)[k], Len(npos))]].didvmean)])]

analyze_sweep ==
    /\ st = "constructed"
    /\ LET r == AnalyzeSweep(df, norminds, scinds, ivcols, rn_iv)
       IN /\ ivcols' = r.ivcols
          /\ rn_iv' = r.rn_iv
          /\ Returned("analyze_sweep", r.err)
    /\ UNCHANGED <<args, st, df, norminds, scinds, traninds, ibias_err, didvobj,
                   didvobj2, rload, rload_list, rload_err, rp, rn_didv, rtot_list,
                   squiddc, squidpole, squidn, tload, normal_psd, noise_model,
                   noisecols, mc>>

-----------------------------------------------------------------------------
(* Transition-state fits: fit_tran_didv *)

NoColumnErr == "AttributeError: 'Series' object has no attribute 'r0'"

\* "for ind in self.traninds": the two-pole fit with priors (stage 1), stored in
\* didvobj, then the physical-units fit (stage 2), stored in didvobj2.
\* acc = [err, objs, objs2]; an exception ends the loop where it is raised.
RECURSIVE TranLoop(_, _, _, _, _, _)
TranLoop(d, inds, k, cols, rlerr, acc) ==
    IF k > Len(inds) \/ acc.err # NoErr THEN acc
    ELSE LET ind == inds[k]
             dpos == Positions(d, "didv")
             npos == Positions(d, "noise")
             p == PyIdx(ind, Len(dpos))
             q == PyIdx(ind, Len(npos))
         IN IF p = 0 THEN [acc EXCEPT !.err = "IndexError"]
            ELSE IF cols # "set" THEN [acc EXCEPT !.err = NoColumnErr]
            ELSE IF IsNone(rlerr) THEN [acc EXCEPT !.err = "TypeError"]
            ELSE IF d[dpos[p]].fit = "raise" THEN [acc EXCEPT !.err = FitErr]
            ELSE LET f == d[dpos[p]].fit
                     obj == FitObj("tran", dpos[p], f # "bad", "none")
                     o1 == [acc.objs EXCEPT ![dpos[p]] = obj]
                     obj2 == FitObj("tran2", dpos[p], f # "bad",
                                    IF f = "bad" THEN "nan"
                                    ELSE IF f = "nonpd" THEN "nonpd" ELSE "pd")
                 IN IF q = 0 THEN [acc EXCEPT !.err = "IndexError", !.objs = o1]
                    ELSE LET o2 == [o1 EXCEPT ![npos[q]] = obj]
                         IN IF f = "raise2"
                            THEN [acc EXCEPT !.err = FitErr, !.objs = o2]
                            ELSE TranLoop(d, inds, k + 1, cols, rlerr,
                                   [err |-> NoErr, objs |-> o2,
                                    objs2 |-> [acc.objs2 EXCEPT ![dpos[p]] = obj2,
                                                                ![npos[q]] = obj2]])

\* FitTran that stores the physical-units fits and leaves didvobj as it was
FitTranStageTwoOnly(d, tr, cols, rlerr, objs, objs2) ==
    [TranLoop(d, RangeSeq(tr), 1, cols, rlerr,
              [err |-> NoErr, objs |-> objs, objs2 |-> objs2])
        EXCEPT !.objs = objs]

FitTran(d, tr, cols, rlerr, objs, objs2) ==
    TranLoop(d, RangeSeq(tr), 1, cols, rlerr,
             [err |-> NoErr, objs |-> objs, objs2 |-> objs2])

fit_tran_didv ==
    /\ st = "constructed"
    /\ LET r == FitTran(df, traninds, ivcols, rload_err, didvobj, didvobj2)
       IN /\ didvobj' = r.objs
          /\ didvobj2' = r.objs2
          /\ Returned("fit_tran_didv", r.err)
    /\ UNCHANGED <<args, st, df, norminds, scinds, traninds, ibias_err, rload,
                   rload_list, rload_err, rp, rn_didv, rtot_list, rn_iv, ivcols,
                   squiddc, squidpole, squidn, tload, normal_psd, noise_model,
                   noisecols, mc>>

-----------------------------------------------------------------------------
(* Noise calibration: fit_normal_noise, fit_sc_noise *)

NeedNormalNoiseErr ==
    "AttributeError: You must fit the normal noise before fitting the SC noise"

\* "for ind in inds": fit the PSD of the ind-th noise row, with the inductance
\* of the one-pole fit stored on that row and the fixed parameters fixed.
\* acc = [err, list]
RECURSIVE NoiseLoop(_, _, _, _, _, _)
NoiseLoop(d, inds, k, objs, fixed, acc) ==
    IF k > Len(inds) \/ acc.err # NoErr THEN acc
    ELSE LET npos == Positions(d, "noise")
             q == PyIdx(inds[k], Len(npos))
         IN IF q = 0 THEN [acc EXCEPT !.err = "IndexError"]
            ELSE IF objs[npos[q]].kind \notin {"sc", "normal"}
            THEN [acc EXCEPT !.err = "TypeError"]
            ELSE IF \/ \E i \in 1..Len(fixed) : IsNone(fixed[i]) \/ IsNaN(fixed[i])
                    \/ ~objs[npos[q]].ok
                    \/ d[npos[q]].fit = "raise"
            THEN [acc EXCEPT !.err = FitErr]
            ELSE NoiseLoop(d, inds, k + 1, objs, fixed,
                           [err |-> NoErr,
                            list |-> Append(acc.list,
                                            FitValue(d[npos[q]], d[npos[q]].fit # "bad"))])

\* fit_normal_noise: returns [err, normal_psd, squid]
FitNormalNoise(d, nm, objs, rl, rn, psd, squid) ==
    IF RangeLen(nm) = 0 \/ ~InBounds(nm, Len(Positions(d, "noise")))
    THEN [err |-> "IndexError", normal_psd |-> psd, squid |-> squid]
    ELSE LET r == NoiseLoop(d, RangeSeq(nm), 1, objs, <<rl, rn>>,
                            [err |-> NoErr, list |-> <<>>])
         IN [err |-> r.err, normal_psd |-> TRUE,
             squid |-> IF r.err = NoErr THEN Mean(r.list) ELSE squid]

fit_normal_noise ==
    /\ st = "constructed"
    /\ LET r == FitNormalNoise(df, norminds, didvobj, rload, rn_iv, normal_psd, squidpole)
       IN /\ normal_psd' = r.normal_psd
          /\ IF r.err = NoErr
             THEN squiddc' = r.squid /\ squidpole' = r.squid /\ squidn' = r.squid
             ELSE UNCHANGED <<squiddc, squidpole, squidn>>
          /\ Returned("fit_normal_noise", r.err)
    /\ UNCHANGED <<args, st, df, norminds, scinds, traninds, ibias_err, didvobj,
                   didvobj2, rload, rload_list, rload_err, rp, rn_didv, rtot_list,
                   rn_iv, ivcols, tload, noise_model,
                   noisecols, mc>>

\* FitScNoise without the check that the normal noise has been fitted
FitScNoiseNoGuard(d, sc, objs, rl, pole, tl) ==
    LET r == NoiseLoop(d, RangeSeq(sc), 1, objs, <<rl>>,
                       [err |-> NoErr, list |-> <<>>])
    IN [err |-> r.err, tload |-> IF r.err = NoErr THEN Mean(r.list) ELSE tl]

\* fit_sc_noise: returns [err, tload]
FitScNoise(d, sc, objs, rl, pole, tl) ==
    IF IsNone(pole)
    THEN [err |-> NeedNormalNoiseErr, tload |-> tl]
    ELSE LET r == NoiseLoop(d, RangeSeq(sc), 1, objs, <<rl, pole>>,
                            [err |-> NoErr, list |-> <<>>])
         IN [err |-> r.err, tload |-> IF r.err = NoErr THEN Mean(r.list) ELSE tl]

fit_sc_noise ==
    /\ st = "constructed"
    /\ LET r == FitScNoise(df, scinds, didvobj, rload, squidpole, tload)
       IN /\ tload' = r.tload
          /\ Returned("fit_sc_noise", r.err)
    /\ UNCHANGED <<args, st, df, norminds, scinds, traninds, ibias_err, didvobj,
                   didvobj2, rload, rload_list, rload_err, rp, rn_didv, rtot_list,
                   rn_iv, ivcols, squiddc, squidpole, squidn, normal_psd,
                   noise_model,
                   noisecols, mc>>

-----------------------------------------------------------------------------
(* Noise model: _get_tes_params, estimate_noise_errors *)

AllInds == [kind |-> "all", items |-> <<>>]
IntInds(i) == [kind |-> "int", items |-> <<i>>]
ListInds(l) == [kind |-> "list", items |-> l]

\* a slot of the np.zeros arrays that the loop has not written
ZeroEntry == [filled |-> FALSE, src |-> 0, cov |-> "none", eres |-> Num(0)]

\* _get_tes_params: the exception it raises, NoErr when it returns samples.
\* A placeholder DIDV object has no irwincov; a zero thermal variance makes
\* scale infinite and the rescaled covariance NaN; a covariance that is not
\* positive definite is sampled all the same (numpy only warns).
GetTesParams(obj2, a) ==
    IF obj2.kind # "tran2" THEN "AttributeError: irwincov"
    ELSE IF obj2.cov = "nan" \/ a.tc_err = Num(0) \/ a.tbath_err = Num(0)
            \/ a.Gta_err = Num(0)
    THEN "LinAlgError"
    ELSE NoErr

\* the parameters of a stage-2 fit, in the order of irwinparams and irwincov
IrwinNames == <<"rshunt", "rp", "r0", "beta", "l", "L", "tau0", "dt">>

ThermalNames == <<"tc", "tbath", "Gta">>

\* a covariance of the stage-2 fit: variance v * i for the i-th parameter and
\* covariance c between any two of them
IrwinCov(v, c) ==
    [p \in (1..Len(IrwinNames)) \X (1..Len(IrwinNames)) |->
        IF p[1] = p[2] THEN Num(v * p[1]) ELSE Num(c)]

MaxVar == 2    \* largest variance factor of a fitted covariance
MaxSigma == 2  \* largest tc_err / tbath_err / Gta_err

IrwinCovs == {IrwinCov(v, c) : v \in 1..MaxVar, c \in 0..1}

\* mu = irwinparams[:-1], followed by tc, tbath and Gta
FullMu(names) == SubSeq(names, 1, Len(names) - 1) \o ThermalNames

\* FullCov keeping the last fitted parameter
FullCovWithOffset(cov, n, a) ==
    [p \in (1..(n + 3)) \X (1..(n + 3)) |->
        IF p[1] <= n /\ p[2] <= n THEN cov[p]
        ELSE IF p[1] # p[2] THEN Num(0)
        ELSE IF p[1] = n + 1 THEN RatMul(a.tc_err, a.tc_err)
        ELSE IF p[1] = n + 2 THEN RatMul(a.tbath_err, a.tbath_err)
        ELSE RatMul(a.Gta_err, a.Gta_err)]

\* full_cov: cov = irwincov[:-1,:-1] of n fitted parameters in the upper left
\* block, the squares of tc_err, tbath_err and Gta_err on the rest of the
\* diagonal, zero elsewhere
FullCov(cov, n, a) ==
    LET m == n - 1
    IN [p \in (1..(m + 3)) \X (1..(m + 3)) |->
          IF p[1] <= m /\ p[2] <= m THEN cov[p]
          ELSE IF p[1] # p[2] THEN Num(0)
          ELSE IF p[1] = m + 1 THEN RatMul(a.tc_err, a.tc_err)
          ELSE IF p[1] = m + 2 THEN RatMul(a.tbath_err, a.tbath_err)
          ELSE RatMul(a.Gta_err, a.Gta_err)]

\* _get_tes_params(didvobj): the samples returned are those of the scaled
\* normal distribution divided by the scale, i.e. draws of the normal
\* distribution of mean full_mu and covariance full_cov, one array per name
TesParams(names, cov, a) ==
    IF a.tc_err = Num(0) \/ a.tbath_err = Num(0) \/ a.Gta_err = Num(0)
    THEN [err |-> "LinAlgError", ret |-> NoRet]
    ELSE [err |-> NoErr,
          ret |-> [kind |-> "normal", names |-> FullMu(names),
                   cov |-> FullCov(cov, Len(names), a)]]

get_tes_params ==
    /\ st = "constructed"
    /\ \E c \in IrwinCovs :
          LET r == TesParams(IrwinNames, c, args)
          IN ReturnedFrom("_get_tes_params", r.err,
                          [kind |-> "didvobj", names |-> IrwinNames, cov |-> c],
                          r.ret)
    /\ UNCHANGED <<args, st, df, norminds, scinds, traninds, ibias_err, didvobj,
                   didvobj2, rload, rload_list, rload_err, rp, rn_didv, rtot_list,
                   rn_iv, ivcols, squiddc, squidpole, squidn, tload, normal_psd,
                   noise_model, noisecols, mc>>

\* "for ind in inds" of estimate_noise_errors over the transition rows tp
\* (positions in df of the noise rows of traninds); acc = [err, rows]
RECURSIVE ModelLoop(_, _, _, _, _, _, _, _, _)
ModelLoop(d, inds, k, tp, objs2, a, tl, psd, acc) ==
    IF k > Len(inds) \/ acc.err # NoErr THEN acc
    ELSE LET ind == inds[k]
             pos == PyIdx(ind, Len(tp))
             slot == PyIdx(ind, Len(inds))
         IN IF pos = 0 THEN [acc EXCEPT !.err = "IndexError"]
            ELSE IF GetTesParams(objs2[tp[pos]], a) # NoErr
            THEN [acc EXCEPT !.err = GetTesParams(objs2[tp[pos]], a)]
            ELSE IF IsNone(tl) THEN [acc EXCEPT !.err = "AttributeError: tload"]
            ELSE IF ~psd THEN [acc EXCEPT !.err = "AttributeError: normal_psd"]
            ELSE IF slot = 0 THEN [acc EXCEPT !.err = "IndexError"]
            ELSE ModelLoop(d, inds, k + 1, tp, objs2, a, tl, psd,
                           [err |-> NoErr,
                            rows |-> [acc.rows EXCEPT ![slot] =
                                        [filled |-> TRUE, src |-> tp[pos],
                                         cov |-> objs2[tp[pos]].cov,
                                         eres |-> Num(d[tp[pos]].eres)]]])

\* estimate_noise_errors(inds=sel): returns [err, noise_model]
EstimateNoiseErrors(d, tr, objs2, a, tl, psd, model, sel) ==
    LET npos == Positions(d, "noise")
        inds == IF sel.kind = "all" THEN [k \in 1..RangeLen(tr) |-> k - 1]
                ELSE sel.items
        tp == [k \in 1..RangeLen(tr) |-> npos[PyIdx(RangeSeq(tr)[k], Len(npos))]]
    IN IF RangeLen(tr) = 0 \/ ~InBounds(tr, Len(npos))
       THEN [err |-> "IndexError", noise_model |-> model]
       ELSE LET r == ModelLoop(d, inds, 1, tp, objs2, a, tl, psd,
                               [err |-> NoErr,
                                rows |-> [k \in 1..Len(inds) |-> ZeroEntry]])
            IN [err |-> r.err,
                noise_model |-> IF r.err = NoErr
                                THEN [set |-> TRUE, rows |-> r.rows]
                                ELSE model]

IndsChoices ==
    {AllInds, IntInds(0), IntInds(1), ListInds(<<0, 1>>), ListInds(<<-1>>)}

estimate_noise_errors ==
    /\ st = "constructed"
    /\ \E sel \in IndsChoices :
          LET r == EstimateNoiseErrors(df, traninds, didvobj2, args, tload,
                                       normal_psd, noise_model, sel)
          IN /\ noise_model' = r.noise_model
             /\ ReturnedFrom("estimate_noise_errors", r.err, sel, NoRet)
    /\ UNCHANGED <<args, st, df, norminds, scinds, traninds, ibias_err, didvobj,
                   didvobj2, rload, rload_list, rload_err, rp, rn_didv, rtot_list,
                   rn_iv, ivcols, squiddc, squidpole, squidn, tload, normal_psd,
                   noisecols, mc>>

-----------------------------------------------------------------------------
(* Aggregation of the Monte-Carlo samples: _err_bounds *)

RECURSIVE InsertNum(_, _)
InsertNum(x, s) ==
    IF s = <<>> THEN <<x>>
    ELSE IF x <= Head(s) THEN <<x>> \o s
    ELSE <<Head(s)>> \o InsertNum(x, Tail(s))

\* the samples in ascending order, as np.median and np.percentile order them
RECURSIVE SortNums(_)
SortNums(xs) == IF xs = <<>> THEN <<>> ELSE InsertNum(Head(xs), SortNums(Tail(xs)))

\* Median taking the middle of the samples in the order given
MiddleSample(xs) ==
    LET n == Len(xs)
    IN IF n % 2 = 1 THEN Num(xs[(n + 1) \div 2])
       ELSE Rat(xs[n \div 2] + xs[n \div 2 + 1], 2)

\* np.median(arr, axis=0) of one frequency bin, arr not empty
Median(xs) ==
    LET n == Len(xs)
        s == SortNums(xs)
    IN IF n % 2 = 1 THEN Num(s[(n + 1) \div 2])
       ELSE Rat(s[n \div 2] + s[n \div 2 + 1], 2)

\* np.percentile(arr, q, axis=0) of one frequency bin, arr not empty: linear
\* interpolation between the order statistics around q/100 * (n - 1)
Percentile(xs, q) ==
    LET n == Len(xs)
        s == SortNums(xs)
        lo == (q * (n - 1)) \div 100
        frac == (q * (n - 1)) % 100
    IN IF frac = 0 THEN Num(s[lo + 1])
       ELSE Rat(100 * s[lo + 1] + frac * (s[lo + 2] - s[lo + 1]), 100)

\* err_bounds returning the lower bound before the upper one
err_bounds_lower_first(arr, perc) ==
    <<Median(arr), Percentile(arr, perc[1]), Percentile(arr, perc[2])>>

\* _err_bounds(arr, perc): (median, p_upper, p_lower)
err_bounds(arr, perc) ==
    LET median == Median(arr)
        p_lower == Percentile(arr, perc[1])
        p_upper == Percentile(arr, perc[2])
    IN <<median, p_upper, p_lower>>

\* the sample arrays, and each of them in every order
SampleArrays == UNION {[1..n -> 0..MaxSample] : n \in 1..MaxSamples}

SameSamples(a, b) ==
    /\ Len(a) = Len(b)
    /\ \A v \in 0..MaxSample :
          Cardinality({i \in 1..Len(a) : a[i] = v})
              = Cardinality({i \in 1..Len(b) : b[i] = v})

\* the percentiles asked for: the default, others around the median, the
\* extremes, the median itself, and a pair handed over upper first
Percentiles ==
    {<<10, 90>>, <<5, 95>>, <<25, 75>>, <<0, 100>>, <<50, 50>>, <<90, 10>>}

\* one call of _err_bounds on the samples, and one on the same samples reordered
ErrBoundsCall ==
    /\ mc.arr # <<>> /\ mc.out = <<>>
    /\ \E perc \in Percentiles :
          mc' = [mc EXCEPT !.perc = perc,
                           !.out = err_bounds(mc.arr, perc),
                           !.out_shuffled = err_bounds(mc.shuffled, perc)]
    /\ UNCHANGED <<args, st, df, norminds, scinds, traninds, ibias_err, didvobj,
                   didvobj2, rload, rload_list, rload_err, rp, rn_didv, rtot_list,
                   rn_iv, ivcols, squiddc, squidpole, squidn, tload, normal_psd,
                   noise_model, last, completed, noisecols, call, ret>>

-----------------------------------------------------------------------------
(* Simple noise model: model_noise_simple *)

\* "for ind in self.traninds" of model_noise_simple: the energy resolution and
\* the effective time constant of the ind-th noise row, from the two-pole fit
\* stored on it; acc = [err, energy_res, tau_eff], the two arrays one entry per
\* noise row, NaN where the loop has not written
RECURSIVE SimpleLoop(_, _, _, _, _, _)
SimpleLoop(d, inds, k, objs, tl, acc) ==
    IF k > Len(inds) \/ acc.err # NoErr THEN acc
    ELSE LET npos == Positions(d, "noise")
             q == PyIdx(inds[k], Len(npos))
         IN IF q = 0 THEN [acc EXCEPT !.err = "IndexError"]
            ELSE IF IsNone(tl) THEN [acc EXCEPT !.err = "AttributeError: tload"]
            ELSE IF objs[npos[q]].kind # "tran"
            THEN [acc EXCEPT !.err = "AttributeError: irwinparams"]
            ELSE LET ok == objs[npos[q]].ok
                 IN SimpleLoop(d, inds, k + 1, objs, tl,
                       [err |-> NoErr,
                        energy_res |-> [acc.energy_res EXCEPT ![q] =
                                          IF ok THEN Num(d[npos[q]].eres) ELSE NaN],
                        tau_eff |-> [acc.tau_eff EXCEPT ![q] =
                                          IF ok THEN Num(d[npos[q]].tau) ELSE NaN]])

\* model_noise_simple: returns [err, noisecols]
ModelNoiseSimple(d, tr, objs, tl, cols) ==
    LET nnoise == Len(Positions(d, "noise"))
        ndidv == Len(Positions(d, "didv"))
        r == SimpleLoop(d, RangeSeq(tr), 1, objs, tl,
                        [err |-> NoErr,
                         energy_res |-> [k \in 1..nnoise |-> NaN],
                         tau_eff |-> [k \in 1..nnoise |-> NaN]])
    IN IF r.err # NoErr THEN [err |-> r.err, noisecols |-> cols]
       ELSE IF ndidv # nnoise
       THEN [err |-> "ValueError: Must have equal len keys and value",
             noisecols |-> [set |-> "partial", energy_res |-> r.energy_res,
                            tau_eff |-> cols.tau_eff]]
       ELSE [err |-> NoErr,
             noisecols |-> [set |-> "set", energy_res |-> r.energy_res,
                            tau_eff |-> r.tau_eff]]

model_noise_simple ==
    /\ st = "constructed"
    /\ LET r == ModelNoiseSimple(df, traninds, didvobj, tload, noisecols)
       IN /\ noisecols' = r.noisecols
          /\ Returned("model_noise_simple", r.err)
    /\ UNCHANGED <<args, st, df, norminds, scinds, traninds, ibias_err, didvobj,
                   didvobj2, rload, rload_list, rload_err, rp, rn_didv, rtot_list,
                   rn_iv, ivcols, squiddc, squidpole, squidn, tload, normal_psd,
                   noise_model, mc>>

-----------------------------------------------------------------------------
(* Optimum bias: find_optimum_bias *)

\* np.argmin of a non-empty sequence, as a python index: the first NaN if there
\* is one, else the first occurrence of the minimum
ArgMin(xs) ==
    IF \E i \in 1..Len(xs) : IsNaN(xs[i])
    THEN (CHOOSE i \in 1..Len(xs) :
             IsNaN(xs[i]) /\ \A j \in 1..(i - 1) : ~IsNaN(xs[j])) - 1
    ELSE (CHOOSE i \in 1..Len(xs) :
             /\ \A j \in 1..Len(xs) : ~RatLess(xs[j], xs[i])
             /\ \A j \in 1..(i - 1) : RatLess(xs[i], xs[j])) - 1

\* the values find_optimum_bias returns
Optimum(lgctau, be, re, e, bt, rt, t) ==
    IF lgctau
    THEN [kind |-> "tuple6", optimum_bias_e |-> be, optimum_r0_e |-> re,
          optimum_e |-> e, optimum_bias_t |-> bt, optimum_r0_t |-> rt,
          optimum_t |-> t]
    ELSE [kind |-> "tuple3", optimum_bias_e |-> be, optimum_r0_e |-> re,
          optimum_e |-> e]

\* TranDf taking every noise row, the transition range not applied
TranDfAllNoise(d, tr) == Positions(d, "noise")

\* trandf = self.df.loc[self.noiseinds].iloc[self.traninds], as the positions
\* in d of its rows; tr addresses noise rows of d
TranDf(d, tr) ==
    LET npos == Positions(d, "noise")
    IN [k \in 1..RangeLen(tr) |-> npos[PyIdx(RangeSeq(tr)[k], Len(npos))]]

\* OptimumFrom answering NaN values where an upstream result is absent
OptimumFromAbsent(d, tr, cols, rn, model, ncols, lgctau) ==
    IF ~InBounds(tr, Len(Positions(d, "noise")))
    THEN [err |-> "IndexError", ret |-> NoRet]
    ELSE [err |-> NoErr, ret |-> Optimum(lgctau, 0, NaN, NaN, 0, NaN, NaN)]

\* the body of find_optimum_bias(lgctau=lgctau), plotting off: [err, ret]
OptimumFrom(d, tr, cols, rn, model, ncols, lgctau) ==
    LET npos == Positions(d, "noise")
        fail(e) == [err |-> e, ret |-> NoRet]
    IN IF ~InBounds(tr, Len(npos)) THEN fail("IndexError")
       ELSE IF cols # "set" THEN fail(NoColumnErr)
       ELSE IF IsNone(rn) \/ ~model.set THEN fail("TypeError")
       ELSE IF ncols.set # "set"
       THEN fail("AttributeError: 'DataFrame' object has no attribute 'tau_eff'")
       ELSE LET trandf == TranDf(d, tr)
                n == Len(trandf)
                qets == [k \in 1..n |-> d[trandf[k]].qetbias]
                r0s == [k \in 1..n |-> RatDiv(Num(d[trandf[k]].didvmean), rn)]
                taus == [k \in 1..n |->
                           ncols.tau_eff[CHOOSE q \in 1..Len(npos) :
                                            npos[q] = trandf[k]]]
                energy_res == [k \in 1..Len(model.rows) |-> model.rows[k].eres]
            IN IF energy_res = <<>> \/ taus = <<>>
               THEN fail("ValueError: attempt to get argmin of an empty sequence")
               ELSE LET eminind == ArgMin(energy_res)
                        tauminind == ArgMin(taus)
                    IN IF PyIdx(eminind, n) = 0
                          \/ PyIdx(tauminind, Len(energy_res)) = 0
                       THEN fail("IndexError")
                       ELSE [err |-> NoErr,
                             ret |-> Optimum(lgctau,
                                        qets[eminind + 1], r0s[eminind + 1],
                                        energy_res[eminind + 1],
                                        qets[tauminind + 1], r0s[tauminind + 1],
                                        energy_res[tauminind + 1])]

\* FindOptimumBias rescaling the energy resolutions of the noise model in place
FindOptimumBiasInPlace(d, tr, cols, rn, model, ncols, lgctau) ==
    LET r == OptimumFrom(d, tr, cols, rn, model, ncols, lgctau)
    IN [err |-> r.err, ret |-> r.ret,
        noise_model |->
            IF r.err # NoErr THEN model
            ELSE [model EXCEPT !.rows =
                     [k \in 1..Len(model.rows) |->
                         [model.rows[k] EXCEPT !.eres =
                             RatMul(model.rows[k].eres, Num(1000))]]]]

\* find_optimum_bias: what it raises or returns, and the noise model it leaves:
\* the method assigns to no attribute and no column
FindOptimumBias(d, tr, cols, rn, model, ncols, lgctau) ==
    LET r == OptimumFrom(d, tr, cols, rn, model, ncols, lgctau)
    IN [err |-> r.err, ret |-> r.ret, noise_model |-> model]

find_optimum_bias ==
    /\ st = "constructed"
    /\ \E lgctau \in BOOLEAN :
          LET r == FindOptimumBias(df, traninds, ivcols, rn_iv, noise_model,
                                   noisecols, lgctau)
          IN /\ noise_model' = r.noise_model
             /\ ReturnedFrom("find_optimum_bias", r.err,
                             [kind |-> "lgctau", lgctau |-> lgctau], r.ret)
    /\ UNCHANGED <<args, st, df, norminds, scinds, traninds, ibias_err, didvobj,
                   didvobj2, rload, rload_list, rload_err, rp, rn_didv, rtot_list,
                   rn_iv, ivcols, squiddc, squidpole, squidn, tload, normal_psd,
                   noisecols, mc>>

-----------------------------------------------------------------------------
(* The full pipeline: do_full_analysis *)

\* the stages in the order do_full_analysis goes through them
Stages ==
    <<"_fit_rload_didv", "_fit_rn_didv", "analyze_sweep", "plot_rload_rn_qetbias",
      "fit_normal_noise", "fit_sc_noise", "fit_tran_didv", "model_noise",
      "find_optimum_bias">>

\* the AnalysisError raised by the except clause of a stage
AnalysisErr(stage) ==
    CASE stage = "_fit_rload_didv" ->
           "AnalysisError: An error occurred when fitting the SC dIdV to determine Rload"
      [] stage = "_fit_rn_didv" ->
           "AnalysisError: An error occurred when fitting the Normal dIdV to determine Rn"
      [] stage = "analyze_sweep" ->
           "AnalysisError: An error occurred when fitting the IV curve"
      [] stage = "plot_rload_rn_qetbias" ->
           "AnalysisError: An error occurred when plotting Rload and Rn vs applied QETbias"
      [] stage = "fit_normal_noise" ->
           "AnalysisError: An error occurred when trying to fit the SQUID and Electronics components of the normal state noise"
      [] stage = "fit_sc_noise" ->
           "AnalysisError: An error occurred when trying to fit the temperature of the load resistor from the SC state noise"
      [] stage = "fit_tran_didv" ->
           "AnalysisError: An error occurred when trying to fit the Transition state dIdV"
      [] stage = "model_noise" ->
           "AnalysisError: An error occurred when trying to model the Transition state noise and estimate the theoretical energy resolution"
      [] stage = "find_optimum_bias" ->
           "AnalysisError: An error occurred when fiding the optimum QET bias"

\* "return success" after "success = True"
TrueRet == [kind |-> "bool", value |-> TRUE]

\* do_full_analysis that goes on to the next stage when a stage has raised, and
\* reports the last stage that raised
DoFullAnalysisGoingOn(d, nm, sc, c, cols, rn, plotok) ==
    LET r1 == RloadPass(d, sc, c)
        r2 == RnPass(d, nm, r1.cal)
        r3 == AnalyzeSweep(d, nm, sc, cols, rn)
    IN [err |-> AnalysisErr(IF r3.err # NoErr THEN "analyze_sweep"
                            ELSE IF r2.err # NoErr THEN "_fit_rn_didv"
                            ELSE IF r1.err # NoErr THEN "_fit_rload_didv"
                            ELSE IF ~plotok THEN "plot_rload_rn_qetbias"
                            ELSE "fit_normal_noise"),
        cal |-> r2.cal, ivcols |-> r3.ivcols, rn_iv |-> r3.rn_iv]

\* do_full_analysis on calibration state c and IV columns cols, rn; plotok says
\* whether the plot of Rload and Rn against the bias can be drawn.  Returns
\* [err, cal, ivcols, rn_iv].  The argument list of the call of
\* fit_normal_noise reads the name lcgplot, which is bound nowhere: the
\* NameError is raised inside the try block before fit_normal_noise is entered,
\* and the except clause turns it into the stage's AnalysisError.  No statement
\* after that is reached.
DoFullAnalysis(d, nm, sc, c, cols, rn, plotok) ==
    LET r1 == RloadPass(d, sc, c)
        r2 == RnPass(d, nm, r1.cal)
        r3 == AnalyzeSweep(d, nm, sc, cols, rn)
    IN IF r1.err # NoErr
       THEN [err |-> AnalysisErr("_fit_rload_didv"), cal |-> r1.cal,
             ivcols |-> cols, rn_iv |-> rn]
       ELSE IF r2.err # NoErr
       THEN [err |-> AnalysisErr("_fit_rn_didv"), cal |-> r2.cal,
             ivcols |-> cols, rn_iv |-> rn]
       ELSE IF r3.err # NoErr
       THEN [err |-> AnalysisErr("analyze_sweep"), cal |-> r2.cal,
             ivcols |-> r3.ivcols, rn_iv |-> r3.rn_iv]
       ELSE IF ~plotok
       THEN [err |-> AnalysisErr("plot_rload_rn_qetbias"), cal |-> r2.cal,
             ivcols |-> r3.ivcols, rn_iv |-> r3.rn_iv]
       ELSE [err |-> AnalysisErr("fit_normal_noise"), cal |-> r2.cal,
             ivcols |-> r3.ivcols, rn_iv |-> r3.rn_iv]

do_full_analysis ==
    /\ st = "constructed"
    /\ \E plotok \in BOOLEAN :
          LET r == DoFullAnalysis(df, norminds, scinds, CalState, ivcols, rn_iv,
                                  plotok)
          IN /\ SetCal(r.cal)
             /\ ivcols' = r.ivcols
             /\ rn_iv' = r.rn_iv
             /\ ReturnedFrom("do_full_analysis", r.err, NoArgs, TrueRet)
    /\ UNCHANGED <<args, st, df, norminds, scinds, traninds, ibias_err, didvobj2,
                   squiddc, squidpole, squidn, tload, normal_psd, noise_model,
                   noisecols, mc>>

-----------------------------------------------------------------------------
(* Constructor arguments *)

NoRange == [given |-> FALSE, lo |-> 0, hi |-> 0]
GivenRange(lo, hi) == [given |-> TRUE, lo |-> lo, hi |-> hi]

Args(d, nnorm, nsc, ntran, channels, lgc, ib, terr) ==
    [df |-> d, nnorm |-> nnorm, nsc |-> nsc, ntran |-> ntran,
     channels |-> channels, lgcremove_badseries |-> lgc, ib_err |-> ib,
     tc_err |-> terr, tbath_err |-> terr, Gta_err |-> terr]

BlankObject ==
    /\ st = "new"
    /\ df = <<>>
    /\ norminds = Range(0, 0) /\ scinds = Range(0, 0) /\ traninds = Range(0, 0)
    /\ ibias_err = NoneV
    /\ didvobj = <<>> /\ didvobj2 = <<>>
    /\ rload = NoneV /\ rload_list = <<>> /\ rload_err = NoneV /\ rp = NoneV
    /\ rn_didv = NoneV /\ rtot_list = <<>>
    /\ rn_iv = NoneV /\ ivcols = "unset"
    /\ squiddc = NoneV /\ squidpole = NoneV /\ squidn = NoneV
    /\ tload = NoneV /\ normal_psd = FALSE
    /\ noise_model = NoModel
    /\ last = [op |-> "none", err |-> NoErr, names |-> {}]
    /\ completed = {}
    /\ noisecols = NoCols
    /\ call = NoArgs /\ ret = NoRet

Blank == BlankObject /\ mc = NoSamples

\* sweeps of one channel, of every shape, with one normal and one
\* superconducting point
ShapeArgs ==
    {Args(Dataset(ks, 1), 1, 1, NoRange, NoChannels, lgc, NoneV, Num(0)) :
        ks \in KindSeqs, lgc \in BOOLEAN}

\* sweeps whose settings are complete, or are dropped whole by the cleaning
\* step, under every choice of the ranges
RangeArgs ==
    {Args(Dataset(ks, 1), nn, ns, nt, NoChannels, lgc, NoneV, Num(0)) :
        ks \in UNION {[1..n -> {"good", "sc0"}] : n \in 1..MaxBias},
        nn \in 0..MaxCount, ns \in 0..MaxCount,
        nt \in {NoRange, GivenRange(1, 3)}, lgc \in BOOLEAN}

\* tables in any row order, with a second channel, under every channel selector
\* and with or without a bias-current uncertainty
ChannelArgs ==
    {Args(IF rev THEN Reverse(Dataset(ks, 1) \o OtherChannel(oc))
                 ELSE Dataset(ks, 1) \o OtherChannel(oc),
          1, 1, NoRange, ch, TRUE, ib, Num(0)) :
        ks \in UNION {[1..n -> {"good", "one"}] : n \in 1..2},
        oc \in {"none", "lone", "pair", "same"}, rev \in BOOLEAN,
        ch \in {NoChannels, ChannelList(<<Chan1>>), ChannelList(<<Chan2>>),
                ChannelStr(Chan1), ChannelStr(Chan2)},
        ib \in {NoneV, Num(1)}}

\* every call of the constructor the model considers
AllArgs == ShapeArgs \cup RangeArgs \cup ChannelArgs

InitCtor == Blank /\ args \in AllArgs

SpecCtor == InitCtor /\ [][Construct]_vars

\* Sweeps for the stages: CoreBias settings of one channel, either all clean
\* with at most one setting whose fits misbehave, or with settings that the
\* cleaning step removes in part or in whole
CoreBias == 4

GoodSweep == Dataset([b \in 1..CoreBias |-> "good"], 1)

CoreSweeps ==
    {GoodSweep}
    \cup {WithFault(GoodSweep, b, f) : b \in 1..CoreBias, f \in Faults}
    \cup {Dataset([b \in 1..CoreBias |-> IF b = CoreBias THEN "sc0" ELSE "good"], 1),
          Dataset([b \in 1..CoreBias |->
                      IF b = 2 THEN "ncut" ELSE IF b = 3 THEN "dflat" ELSE "good"], 1)}

\* sweeps whose energy resolution and time constant rise with the bias
\* ("up"), fall with it ("down"), or are the same at every setting ("flat")
Shapes == {"up", "down", "flat"}

ShapeAt(p, b) ==
    CASE p = "up" -> b [] p = "down" -> CoreBias + 1 - b [] p = "flat" -> 1

Profiled(d, pe, pt) ==
    [i \in 1..Len(d) |-> [d[i] EXCEPT !.eres = ShapeAt(pe, d[i].qetbias),
                                      !.tau = ShapeAt(pt, d[i].qetbias)]]

CoreRanges ==
    {<<1, 1, NoRange>>, <<2, 1, NoRange>>, <<1, 2, NoRange>>,
     <<1, 1, GivenRange(0, 2)>>}

CoreArgs ==
    {Args(d, r[1], r[2], r[3], NoChannels, TRUE, NoneV, Num(1)) :
        d \in CoreSweeps, r \in CoreRanges}
    \cup {Args(GoodSweep, 1, 1, NoRange, NoChannels, TRUE, NoneV, Num(0))}
    \cup {Args(Profiled(GoodSweep, pe, pt), 1, 1, NoRange, NoChannels, TRUE,
                NoneV, Num(1)) : pe \in Shapes, pt \in Shapes}

Init == Blank /\ args \in CoreArgs

Next ==
    \/ Construct
    \/ fit_rload_didv
    \/ fit_rn_didv
    \/ analyze_sweep
    \/ fit_tran_didv
    \/ fit_normal_noise
    \/ fit_sc_noise
    \/ estimate_noise_errors
    \/ model_noise_simple
    \/ find_optimum_bias

Spec == Init /\ [][Next]_vars

\* the pipeline through its wrappers, on an object on which the resistance
\* fits and the sweep analysis may have been run by hand before
NextFull ==
    \/ Construct
    \/ fit_rload_didv
    \/ fit_rn_didv
    \/ analyze_sweep
    \/ fit_rload_rn
    \/ do_full_analysis

SpecFull == Init /\ [][NextFull]_vars

\* _err_bounds alone: no object is involved
InitErrBounds ==
    /\ BlankObject
    /\ args = Args(<<>>, 0, 0, NoRange, NoChannels, TRUE, NoneV, Num(0))
    /\ \E a \in SampleArrays :
          \E b \in {x \in SampleArrays : SameSamples(a, x)} :
             mc = [NoSamples EXCEPT !.arr = a, !.shuffled = b]

SpecErrBounds == InitErrBounds /\ [][ErrBoundsCall]_vars

\* _get_tes_params alone, on objects built with every combination of the
\* three thermal uncertainties
TesArgs ==
    {[Args(Dataset(<<"good">>, 1), 1, 1, NoRange, NoChannels, TRUE, NoneV, Num(0))
        EXCEPT !.tc_err = Num(x), !.tbath_err = Num(y), !.Gta_err = Num(z)] :
        x \in 0..MaxSigma, y \in 0..MaxSigma, z \in 0..MaxSigma}

InitTes == Blank /\ args \in TesArgs

NextTes ==
    \/ Construct
    \/ get_tes_params

SpecTes == InitTes /\ [][NextTes]_vars

-----------------------------------------------------------------------------
(* Properties *)

NoiseRows == Positions(df, "noise")
DidvRows == Positions(df, "didv")

\* the object holds nothing: no dataset, no ranges, no derived result
NoObject ==
    /\ df = <<>> /\ didvobj = <<>> /\ didvobj2 = <<>>
    /\ norminds = Range(0, 0) /\ scinds = Range(0, 0) /\ traninds = Range(0, 0)
    /\ IsNone(rload) /\ IsNone(rn_didv) /\ IsNone(rn_iv) /\ ivcols = "unset"
    /\ IsNone(squidpole) /\ IsNone(tload) /\ ~noise_model.set

\* the channels the validation visits on which some bias value of the input
\* table does not occur exactly twice
Offending ==
    {c \in CheckedChannels(args.df, args.channels) :
        \E i \in 1..Len(args.df) :
            /\ args.df[i].channels = c
            /\ Cardinality({j \in 1..Len(args.df) :
                               /\ args.df[j].channels = c
                               /\ args.df[j].qetbias = args.df[i].qetbias}) # 2}

C2_PairedRecords ==
    st = "constructed" =>
        /\ \A i \in 1..Len(df) :
              LET same == {j \in 1..Len(df) : df[j].qetbias = df[i].qetbias}
              IN /\ Cardinality(same) = 2
                 /\ \E j \in same : df[j].datatype = "noise"
                 /\ \E j \in same : df[j].datatype = "didv"
        /\ Len(NoiseRows) = Len(DidvRows)
        /\ \A k \in 1..Len(NoiseRows) :
              df[NoiseRows[k]].qetbias = df[DidvRows[k]].qetbias

Disjoint(a, b) == RangeSet(a) \cap RangeSet(b) = {}

\* the three ranges split the positions 0..n-1, normal first and SC last
Partition(n, nnorm, nsc) ==
    /\ Disjoint(norminds, scinds) /\ Disjoint(norminds, traninds)
    /\ Disjoint(scinds, traninds)
    /\ RangeSet(norminds) \cup RangeSet(scinds) \cup RangeSet(traninds) = 0..(n - 1)
    /\ RangeSet(norminds) = 0..(nnorm - 1)
    /\ RangeSet(scinds) = (n - nsc)..(n - 1)

C4_RnNeedsRload ==
    [][(last'.op = "_fit_rn_didv" /\ IsNone(rload)) =>
          /\ last'.err = NeedRloadErr
          /\ UNCHANGED <<df, didvobj, didvobj2, rload, rload_list, rload_err, rp,
                         rn_didv, rtot_list, rn_iv, ivcols, squiddc, squidpole,
                         squidn, tload, normal_psd, noise_model, completed>>]_vars

C4_Witness ==
    /\ last.op = "_fit_rn_didv" /\ last.err = NeedRloadErr
    /\ IsNone(rload) /\ IsNone(rn_didv) /\ rtot_list = <<>>
    /\ "analyze_sweep" \in completed /\ ivcols = "set"

C6_ScNoiseAfterNormal ==
    /\ last.op = "fit_sc_noise" =>
          (last.err = NeedNormalNoiseErr <=> "fit_normal_noise" \notin completed)
    /\ "fit_normal_noise" \notin completed => IsNone(tload)

C6_Witness ==
    /\ last.op = "fit_sc_noise" /\ last.err = NoErr
    /\ "fit_normal_noise" \in completed /\ ~IsNone(tload)

\* the bias values of the last nsc settings of the input sweep
ScBiases ==
    LET all == {args.df[i].qetbias : i \in 1..Len(args.df)}
    IN {b \in all : Cardinality({c \in all : c > b}) < args.nsc}

\* C7 (as stated): when every SC-range row of the input has offset_err = 0 and
\* is removed by the cleaning, _fit_rload_didv raises instead of computing a
\* load resistance.
C7_NoScRows ==
    (/\ last.op = "_fit_rload_didv"
     /\ args.lgcremove_badseries /\ args.nsc > 0
     /\ \A i \in 1..Len(args.df) :
           args.df[i].qetbias \in ScBiases => args.df[i].offset_err = 0) =>
        /\ \A i \in 1..Len(df) : df[i].qetbias \notin ScBiases
        /\ last.err # NoErr /\ IsNone(rload)

\* C8 (as stated): when the fit of one transition row fails, the remaining
\* transition rows are still fitted.
C8_RowFailureIsLocal ==
    (last.op = "fit_tran_didv" /\ last.err = FitErr) =>
        \A i \in RangeSet(traninds) :
            LET p == DidvRows[PyIdx(i, Len(DidvRows))]
            IN df[p].fit \notin {"raise", "raise2"} => didvobj2[p].kind = "tran2"

\* C9 (as stated): the noise model holds entries only of transition rows whose
\* stage-2 covariance is positive definite.
C9_OnlyPositiveDefinite ==
    noise_model.set =>
        \A k \in 1..Len(noise_model.rows) :
            noise_model.rows[k].filled => noise_model.rows[k].cov = "pd"

\* C10 (as stated): a calibration stage completes on the points whose fit
\* succeeded, and no NaN per-point value enters the list it averages.
C10_NoFailedPointInMean ==
    /\ \A k \in 1..Len(rload_list) : ~IsNaN(rload_list[k])
    /\ \A k \in 1..Len(rtot_list) : ~IsNaN(rtot_list[k])
    /\ (~IsNone(rload) /\ rload_list # <<>>) => ~IsNaN(rload)
    /\ (~IsNone(squidpole)) => ~IsNaN(squidpole)
    /\ (~IsNone(tload)) => ~IsNaN(tload)

\* the rows of df that the transition range addresses, and their bias values
TranRows == TranDf(df, traninds)
TranBiases == {df[TranRows[k]].qetbias : k \in 1..Len(TranRows)}

\* the bias values of the noise rows that the normal and SC ranges address
NormScBiases ==
    {df[NoiseRows[PyIdx(i, Len(NoiseRows))]].qetbias :
        i \in {j \in RangeSet(norminds) \cup RangeSet(scinds) :
                  PyIdx(j, Len(NoiseRows)) # 0}}

\* the slots of the noise model that hold a transition point
ModelPoints == {k \in 1..Len(noise_model.rows) : noise_model.rows[k].filled}

\* the place of row src of df among the transition rows
TranPlace(src) == CHOOSE k \in 1..Len(TranRows) : TranRows[k] = src

\* find_optimum_bias was the last call, on an object that holds the r0 column,
\* rn_iv, the tau_eff column and a noise model
OptimumCalled ==
    /\ last.op = "find_optimum_bias"
    /\ ivcols = "set" /\ noisecols.set = "set" /\ noise_model.set
    /\ ModelPoints # {}

\* slot k of the noise model is its point of least energy resolution, the
\* first such transition point on ties
LeastEnergyRes(k) ==
    LET e == noise_model.rows[k]
    IN \A j \in ModelPoints :
          LET f == noise_model.rows[j]
          IN /\ ~RatLess(f.eres, e.eres)
             /\ f.eres = e.eres => TranPlace(e.src) <= TranPlace(f.src)

\* transition row p is the one of least effective time constant, the first
\* such row on ties
LeastTau(p) ==
    \A j \in 1..Len(TranRows) :
        /\ df[TranRows[j]].tau >= df[TranRows[p]].tau
        /\ df[TranRows[j]].tau = df[TranRows[p]].tau => p <= j

\* C11 (as stated): for every noise model that estimate_noise_errors produced,
\* find_optimum_bias returns the bias and R/Rn of the transition point of the
\* model whose median energy resolution is least, the first on ties.
C11_MinEnergyRes ==
    OptimumCalled =>
        /\ last.err = NoErr
        /\ \E k \in ModelPoints :
              LET src == noise_model.rows[k].src
              IN /\ LeastEnergyRes(k)
                 /\ ret.optimum_bias_e = df[src].qetbias
                 /\ ret.optimum_r0_e = RatDiv(Num(df[src].didvmean), rn_iv)

C13_MinTau ==
    (last.op = "find_optimum_bias" /\ last.err = NoErr /\ ret.kind = "tuple6"
     /\ \A k \in 1..Len(TranRows) : didvobj[TranRows[k]].ok) =>
        \E p \in 1..Len(TranRows) :
            /\ LeastTau(p)
            /\ ret.optimum_bias_t = df[TranRows[p]].qetbias
            /\ ret.optimum_r0_t = RatDiv(Num(df[TranRows[p]].didvmean), rn_iv)
            /\ ret.optimum_t = Num(df[TranRows[p]].tau)

\* C14: find_optimum_bias changes no column, no noise model and no derived
\* scalar, and a second call in a row with the same arguments ends as the
\* first did, with the same values.
C14_OptimumIdempotent ==
    [][last'.op = "find_optimum_bias" =>
          /\ UNCHANGED <<df, norminds, scinds, traninds, didvobj, didvobj2, rload,
                         rload_list, rload_err, rp, rn_didv, rtot_list, rn_iv,
                         ivcols, squiddc, squidpole, squidn, tload, normal_psd,
                         noise_model, noisecols>>
          /\ (last.op = "find_optimum_bias" /\ call' = call) =>
                (ret' = ret /\ last'.err = last.err)]_vars

C14_Witness ==
    /\ last.op = "find_optimum_bias" /\ last.err = NoErr
    /\ ret.kind = "tuple6" /\ ret.optimum_e # ret.optimum_t

\* C16: _err_bounds returns the same median and the same upper and lower
\* percentile bounds for the samples in any order.
C16_OrderIndependent ==
    mc.out # <<>> => mc.out = mc.out_shuffled

C16_Witness ==
    /\ mc.out # <<>> /\ mc.arr # mc.shuffled
    /\ mc.out[1] # mc.out[2] /\ mc.out[1] # mc.out[3]
    /\ mc.out[1] # MiddleSample(mc.arr)

\* estimate_noise_errors was the last call, on an object whose transition rows
\* all hold a stage-2 fit with a positive-definite covariance, and that holds
\* the load temperature and the normal-state PSD
NoiseModelCalled ==
    /\ last.op = "estimate_noise_errors"
    /\ RangeLen(traninds) > 0 /\ InBounds(traninds, Len(NoiseRows))
    /\ \A k \in 1..Len(TranRows) :
          didvobj2[TranRows[k]].kind = "tran2" /\ didvobj2[TranRows[k]].cov = "pd"
    /\ ~IsNone(tload) /\ normal_psd

\* the positions the last call of estimate_noise_errors selected
Selected ==
    IF call.kind = "all" THEN [k \in 1..Len(TranRows) |-> k - 1] ELSE call.items

ZeroVariance ==
    {n \in {"tc_err", "tbath_err", "Gta_err"} : args[n] = Num(0)}

\* C15 (as stated): for 'all', a list of positions or a single position of
\* transition points, estimate_noise_errors completes and the noise model holds
\* one entry per selected point, computed from that point's row.
C15_OneEntryPerSelected ==
    (/\ NoiseModelCalled /\ ZeroVariance = {}
     /\ \A k \in 1..Len(Selected) : PyIdx(Selected[k], Len(TranRows)) # 0) =>
        /\ last.err = NoErr
        /\ Len(noise_model.rows) = Len(Selected)
        /\ \A k \in 1..Len(Selected) :
              /\ noise_model.rows[k].filled
              /\ noise_model.rows[k].src = TranRows[PyIdx(Selected[k], Len(TranRows))]

\* C19 (as stated): when a variance of the sampled covariance is zero, the
\* computation of the point aborts with an error that names the offending
\* parameter.
C19_NamesZeroVariance ==
    (NoiseModelCalled /\ ZeroVariance # {}) =>
        /\ last.err # NoErr
        /\ last.names \cap ZeroVariance # {}

\* every stage succeeds when the stages are invoked in order on the object
\* (noise modelling being model_noise_simple and estimate_noise_errors)
StagesSucceedInOrder ==
    LET r1 == RloadPass(df, scinds, CalState)
        r2 == RnPass(df, norminds, r1.cal)
        r3 == AnalyzeSweep(df, norminds, scinds, ivcols, rn_iv)
        r4 == FitNormalNoise(df, norminds, r2.cal.objs, r2.cal.rload, r3.rn_iv,
                             normal_psd, squidpole)
        r5 == FitScNoise(df, scinds, r2.cal.objs, r2.cal.rload, r4.squid, tload)
        r6 == FitTran(df, traninds, r3.ivcols, r2.cal.rload_err, r2.cal.objs,
                      didvobj2)
        r7 == ModelNoiseSimple(df, traninds, r6.objs, r5.tload, noisecols)
        r8 == EstimateNoiseErrors(df, traninds, r6.objs2, args, r5.tload,
                                  r4.normal_psd, noise_model, AllInds)
        r9 == FindOptimumBias(df, traninds, r3.ivcols, r3.rn_iv, r8.noise_model,
                              r7.noisecols, FALSE)
    IN /\ r1.err = NoErr /\ r2.err = NoErr /\ r3.err = NoErr /\ r4.err = NoErr
       /\ r5.err = NoErr /\ r6.err = NoErr /\ r7.err = NoErr /\ r8.err = NoErr
       /\ r9.err = NoErr

\* C17 (as stated): when every stage succeeds if invoked in order on the
\* object, do_full_analysis runs all the stages and returns True.
C17_FullAnalysisReturnsTrue ==
    [][(st = "constructed" /\ StagesSucceedInOrder
        /\ last'.op = "do_full_analysis") =>
          (last'.err = NoErr /\ ret' = TrueRet)]_vars

\* the place in Stages of the stage whose AnalysisError e is
StageOf(e) == CHOOSE k \in 1..Len(Stages) : AnalysisErr(Stages[k]) = e

\* what the noise fits, the transition fits, the noise model and the optimum
\* search write is as it was before the step
LaterStagesNotInvoked ==
    UNCHANGED <<didvobj2, squiddc, squidpole, squidn, tload, normal_psd,
                noise_model, noisecols>>

CleanPlaces ==
    {i \in DOMAIN args.df :
        /\ args.df[i].cut_pass
        /\ args.df[i].ndistinct >= StationaryMin
        /\ args.df[i].offset_err # 0}

\* C20: with the removal of bad series enabled the object's table holds exactly
\* the input rows that passed the quality cut, are not flat and have a
\* non-zero offset uncertainty; with the removal disabled it holds every
\* input row.
C20_CleaningKeepsGoodRows ==
    st = "constructed" =>
        LET kept == IF args.lgcremove_badseries THEN CleanPlaces
                    ELSE DOMAIN args.df
        IN /\ {df[i] : i \in DOMAIN df} = {args.df[i] : i \in kept}
           /\ Len(df) = Cardinality(kept)

\* an object built with the removal enabled from a table of which some rows,
\* but not all, were dropped, among them a row whose only fault is a zero
\* offset uncertainty
C20_Witness ==
    /\ st = "constructed" /\ args.lgcremove_badseries
    /\ CleanPlaces # {} /\ CleanPlaces # DOMAIN args.df
    /\ \E i \in DOMAIN args.df \ CleanPlaces :
          args.df[i].cut_pass /\ args.df[i].ndistinct >= StationaryMin

\* the table d with the rows at places i and j exchanged
Swapped(d, i, j) ==
    [k \in 1..Len(d) |-> IF k = i THEN d[j] ELSE IF k = j THEN d[i] ELSE d[k]]

\* C21 (as stated): the object built from the same rows handed over in another
\* order holds the same sequence of rows and the same normal, SC and
\* transition ranges.
C21_SameRowsAnyOrder ==
    st = "constructed" =>
        \A i, j \in 1..Len(args.df) :
            LET r == Ctor([args EXCEPT !.df = Swapped(args.df, i, j)])
            IN /\ r.err = NoErr
               /\ r.df = df
               /\ r.norminds = norminds /\ r.scinds = scinds
               /\ r.traninds = traninds

\* the total resistances fitted on the dIdV rows that the range r addresses
FittedOver(r) ==
    LET dpos == Positions(df, "didv")
    IN [k \in 1..RangeLen(r) |->
          LET row == df[dpos[PyIdx(RangeSeq(r)[k], Len(dpos))]]
          IN FitValue(row, row.fit # "bad")]

\* C22: fit_rload_rn never fails for want of rload, and when it completes
\* rload is the mean of the total resistances fitted over the SC range, rp is
\* rload less the shunt resistance, and rn_didv is the mean of the total
\* resistances fitted over the normal range less rload.
C22_RloadThenRn ==
    [][last'.op = "fit_rload_rn" =>
         /\ last'.err # NeedRloadErr
         /\ last'.err = NoErr =>
               /\ rload' = Mean(FittedOver(scinds))
               /\ rp' = RatSub(rload', rshunt)
               /\ rn_didv' = RatSub(Mean(FittedOver(norminds)), rload')]_vars

\* fit_rload_rn completed on an object on which rload had never been fitted
\* by hand, over two SC points of differing resistance
C22_Witness ==
    /\ last.op = "fit_rload_rn" /\ last.err = NoErr
    /\ "_fit_rload_didv" \notin completed
    /\ RangeLen(scinds) = 2
    /\ ~IsNaN(rload) /\ ~IsNaN(rn_didv)
    /\ rload_list[1] # rload_list[2]

\* C23 (as stated): when the table and the ranges are such that the object is
\* built without ib_err, it is built with ib_err too, and the stored
\* bias-current uncertainty of every point is ib_err, or zero when ib_err is
\* omitted.
C23_StoresIbErr ==
    (st # "new" /\ Ctor([args EXCEPT !.ib_err = NoneV]).err = NoErr) =>
        /\ st = "constructed"
        /\ ibias_err = IF IsNone(args.ib_err) THEN Num(0) ELSE args.ib_err

\* the fit state of row i under the columns objs (didvobj) and objs2
\* (didvobj2): 0 unfit, 1 two-pole fit with priors stored, 2 physical-units
\* fit stored over the two-pole fit of the same row
RowStage(objs, objs2, i) ==
    IF objs2[i].kind = "tran2" THEN 2 ELSE IF objs[i].kind = "tran" THEN 1 ELSE 0

\* a row holding a stage-2 fit holds the stage-1 fit of the same row
StageTwoOverStageOne(objs, objs2) ==
    \A i \in 1..Len(objs2) :
        objs2[i].kind = "tran2" => objs[i].kind = "tran" /\ objs[i].src = objs2[i].src

\* the noise and dIdV records that traninds addresses
TranRecords ==
    LET npos == Positions(df, "noise")
        dpos == Positions(df, "didv")
    IN {npos[PyIdx(i, Len(npos))] : i \in RangeSet(traninds)}
       \cup {dpos[PyIdx(i, Len(dpos))] : i \in RangeSet(traninds)}

StagesAdvance ==
    /\ \A i \in 1..Len(didvobj) :
          RowStage(didvobj', didvobj2', i) >= RowStage(didvobj, didvobj2, i)
    /\ StageTwoOverStageOne(didvobj', didvobj2')
    /\ (last'.op = "fit_tran_didv" /\ last'.err = NoErr) =>
          \A i \in TranRecords : RowStage(didvobj', didvobj2', i) = 2

RecordsOf(r) ==
    LET npos == Positions(df, "noise")
        dpos == Positions(df, "didv")
    IN {npos[PyIdx(i, Len(npos))] : i \in {j \in RangeSet(r) : PyIdx(j, Len(npos)) # 0}}
       \cup {dpos[PyIdx(i, Len(dpos))] : i \in {j \in RangeSet(r) : PyIdx(j, Len(dpos)) # 0}}

\* the range a fitting stage goes over
StageRange(op) ==
    CASE op = "_fit_rload_didv" -> scinds
      [] op = "_fit_rn_didv" -> norminds
      [] op = "fit_tran_didv" -> traninds

\* every fit object of the columns is stored on a record of the bias point of
\* the record it was computed from
OnOwnBiasPoint(objs) ==
    \A i \in 1..Len(objs) :
        objs[i].kind # "temp" => df[objs[i].src].qetbias = df[i].qetbias

\* C25 (as stated): a fitting stage changes the fit objects of the records of
\* its own range only, and every fit object it stores sits on the noise and
\* dIdV records of the bias point it was computed from.
C25_WritesOwnRangeOnly ==
    [][(st = "constructed"
        /\ last'.op \in {"_fit_rload_didv", "_fit_rn_didv", "fit_tran_didv"}) =>
          /\ \A i \in 1..Len(df) :
                (didvobj'[i] # didvobj[i] \/ didvobj2'[i] # didvobj2[i])
                    => i \in RecordsOf(StageRange(last'.op))
          /\ last'.op # "fit_tran_didv" => didvobj2' = didvobj2
          /\ OnOwnBiasPoint(didvobj') /\ OnOwnBiasPoint(didvobj2')]_vars

\* the last three dimensions of the distribution returned have the squares of
\* tc_err, tbath_err and Gta_err as variances, and zero covariance with every
\* other dimension
ThermalBlockIndependent ==
    LET n == Len(ret.names)
        sig == <<args.tc_err, args.tbath_err, args.Gta_err>>
    IN /\ SubSeq(ret.names, n - 2, n) = ThermalNames
       /\ \A k \in 1..3 :
             /\ ret.cov[<<n - 3 + k, n - 3 + k>>] = RatMul(sig[k], sig[k])
             /\ \A j \in 1..n :
                   j # n - 3 + k =>
                       /\ ret.cov[<<n - 3 + k, j>>] = Num(0)
                       /\ ret.cov[<<j, n - 3 + k>>] = Num(0)

IsPercentile(xs, q, p) ==
    LET n == Len(xs)
        below == Cardinality({i \in 1..n : RatLess(Num(xs[i]), p)})
        above == Cardinality({i \in 1..n : RatLess(p, Num(xs[i]))})
    IN /\ 100 * below < q * (n - 1) + 100
       /\ 100 * above < (100 - q) * (n - 1) + 100

OptimumNeeds == {"analyze_sweep", "model_noise_simple", "estimate_noise_errors"}

SelectedChannel ==
    IF args.channels.kind = "str" THEN args.channels.items
    ELSE args.channels.items[1]

\* C29 (as stated): a table in which a bias value of the selected channel
\* does not occur exactly twice is rejected, whether the channel is selected
\* by a list of names or by one name given as a string.
C29_StringSelectorChecked ==
    (/\ st # "new"
     /\ args.channels.kind \in {"list", "str"}
     /\ LET check_data == BiasCounter(args.df, SelectedChannel)
        IN \E b \in DOMAIN check_data : check_data[b] # 2) =>
        st = "failed" /\ last.err = ShapeErr

\* the object the same arguments build when a transition range is handed over
WithGivenRange == Ctor([args EXCEPT !.ntran = GivenRange(0, 0)])

\* C30 (as stated): without an explicit transition range, the object is built
\* for every nnorm >= 0 and nsc >= 0 with nnorm + nsc <= n, n the number of
\* bias points kept, and its transition range is nnorm .. n - nsc - 1.
C30_AnyCountsAccepted ==
    (/\ st # "new" /\ ~args.ntran.given
     /\ WithGivenRange.err = NoErr
     /\ args.nnorm + args.nsc <= Len(WithGivenRange.df) \div 2) =>
        /\ st = "constructed"
        /\ RangeSet(traninds)
              = {i \in 0..(Len(df) \div 2 - 1) :
                    args.nnorm <= i /\ i <= Len(df) \div 2 - args.nsc - 1}

====
